---- MODULE Spec2Model ----
(***************************************************************************)
(* Model of adante's Arguments::parse (src/src/lib.rs, lines 405-451).     *)
(*                                                                         *)
(* A string is a sequence of one-character strings; byte offsets of the    *)
(* source are 0-based, sequence indices here are 1-based.  One action is   *)
(* one iteration of the `for arg in env_args.iter()` loop (or the final    *)
(* `Ok(args)`); a Rust panic (out-of-range slice) ends the invocation in   *)
(* pc = "panicked" with no value returned.                                 *)
(*                                                                         *)
(* The classifiers F::from_str and A::from_str are supplied by the caller; *)
(* the model instantiates them with the ones of src/src/tests.rs.  `calls` *)
(* is the log of the classifier invocations parse makes (what was passed,  *)
(* for which token, and what came back).                                   *)
(***************************************************************************)
EXTENDS Naturals, Sequences, FiniteSets

VARIABLES
    env_args,   \* parameter env_args: the tokens (lib.rs:405)
    error,      \* parameter error: the caller's error value (lib.rs:405)
    args,       \* let mut args = Arguments::new() (lib.rs:406)
    eq_pos,     \* let mut eq_pos: usize = 0 (lib.rs:407)
    idx,        \* tokens taken from env_args.iter() so far (lib.rs:408)
    pc,         \* "loop", "returned" or "panicked"
    result,     \* the value returned, Pending before the return
    calls,      \* the classifier invocations made so far, in order
    other       \* the locals of a second invocation of parse while it is
                \* not the one taking a step (NoOther when there is none)

vars == <<env_args, error, args, eq_pos, idx, pc, result, calls, other>>

\* Largest number of tokens in an input.
MaxTokens == 3

\* Largest number of tokens in the input of each of two concurrent invocations.
MaxConcTokens == 2

\* ----------------------------------------------------------------------
\* Inputs
\* ----------------------------------------------------------------------

\* The tokens inputs are built from: the empty token, flags without and
\* with a separator (one '=', a trailing '=', several '='), long and
\* combined flags, unrecognized flags, and actions (recognized,
\* unrecognized, containing '=').
TokenPool ==
    { << >>,
      <<"-","h">>,
      <<"-","v">>,
      <<"-","x">>,
      <<"-","h","=","a">>,
      <<"-","v","=">>,
      <<"-","h","=","a","=","r">>,
      <<"-","x","=","a">>,
      <<"-","-","h","e","l","p">>,
      <<"-","-","h","e","l","p","=","a">>,
      <<"-","h","v">>,
      <<"a">>,
      <<"r">>,
      <<"x">>,
      <<"a","=","r">> }

RECURSIVE SeqsUpTo(_)
SeqsUpTo(n) ==
    IF n = 0 THEN { << >> }
    ELSE LET shorter == SeqsUpTo(n - 1)
         IN  shorter \cup { Append(s, t) : s \in { x \in shorter : Len(x) = n - 1 },
                                           t \in TokenPool }

\* The tokens the inputs of two concurrent invocations are built from.
ConcTokenPool ==
    { << >>,
      <<"-","h">>,
      <<"-","x">>,
      <<"-","v","=">>,
      <<"-","-","h","e","l","p","=","a">>,
      <<"a">> }

RECURSIVE ConcSeqsUpTo(_)
ConcSeqsUpTo(n) ==
    IF n = 0 THEN { << >> }
    ELSE LET shorter == ConcSeqsUpTo(n - 1)
         IN  shorter \cup { Append(s, t) : s \in { x \in shorter : Len(x) = n - 1 },
                                           t \in ConcTokenPool }

\* TestErrorType (src/src/tests.rs): the error values a caller can supply.
ErrorValues == { "Syntax", "FlagVal", "NoFlagVal", "NotRecognized" }

\* The error values the inputs are drawn from.
SuppliedErrors == { "Syntax", "NotRecognized" }

\* ----------------------------------------------------------------------
\* Values
\* ----------------------------------------------------------------------

None == [tag |-> "None"]
Some(v) == [tag |-> "Some", val |-> v]

Ok(v) == [tag |-> "Ok", val |-> v]
Err(e) == [tag |-> "Err", error |-> e]

Flag(k, v) == [key |-> k, value |-> v]

\* Arguments::new, as a constructor seeding a default action would behave
ArgumentsNewSeeded == [flags |-> << >>, actions |-> <<"Add">>]

\* Arguments::new
ArgumentsNew == [flags |-> << >>, actions |-> << >>]

\* Vec::push, as `args.flags = vec![x]` would behave
PushReplace(vec, x) == <<x>>

\* Vec::push, as `insert(0, x)` would behave
PushFront(vec, x) == <<x>> \o vec

\* Vec::push
Push(vec, x) == Append(vec, x)

\* Err(e) => return Err(e), as returning a fixed error would behave
ReturnErrFixed(e) == Err("Syntax")

\* Err(e) => return Err(e)
ReturnErr(e) == Err(e)

\* ----------------------------------------------------------------------
\* Classifiers (the caller's ArgumentType::from_str implementations)
\* ----------------------------------------------------------------------

\* TestFlagType::from_str
FlagFromStr(key, e) ==
    CASE key = <<"-","h">> -> Ok("Help")
      [] key = <<"-","-","h","e","l","p">> -> Ok("Help")
      [] key = <<"-","v">> -> Ok("Verbose")
      [] key = <<"-","-","v","e","r","b","o","s","e">> -> Ok("Verbose")
      [] key = <<"-","p">> -> Ok("Print")
      [] key = <<"-","-","p","r","i","n","t">> -> Ok("Print")
      [] OTHER -> Err(e)

\* TestActionType::from_str
ActionFromStr(key, e) ==
    CASE key = <<"a","d","d">> -> Ok("Add")
      [] key = <<"a">> -> Ok("Add")
      [] key = <<"r","e","m","o","v","e">> -> Ok("Remove")
      [] key = <<"r">> -> Ok("Remove")
      [] key = <<"e","d","i","t">> -> Ok("Edit")
      [] key = <<"e">> -> Ok("Edit")
      [] OTHER -> Err(e)

\* ----------------------------------------------------------------------
\* String slicing (str indexing by a byte range; out of range panics)
\* ----------------------------------------------------------------------

\* &s[a..b] is in range
SliceInRange(s, a, b) == a <= b /\ b <= Len(s)

\* &s[a..b]
Slice(s, a, b) == SubSeq(s, a + 1, b)

\* &arg[0..1] == "-", as the inverted test would behave
IsFlagTokenInverted(arg) == Slice(arg, 0, 1) # <<"-">>

\* &arg[0..1] == "-"
IsFlagToken(arg) == Slice(arg, 0, 1) = <<"-">>

\* for (i, &byte) in arg.as_bytes().iter().enumerate() { if byte == b'=' { eq_pos = i } }
\* from byte offset i on, starting with the position pos
RECURSIVE ScanFrom(_, _, _)
ScanFrom(arg, i, pos) ==
    IF i >= Len(arg) THEN pos
    ELSE ScanFrom(arg, i + 1, IF arg[i + 1] = "=" THEN i ELSE pos)

FindSeparator(arg, pos) == ScanFrom(arg, 0, pos)

\* let key = &arg[0..eq_pos];
KeySlice(arg, pos) == Slice(arg, 0, pos)

\* let val = &arg[(eq_pos + 1)..], as &arg[eq_pos..] would behave
ValSliceFromSeparator(arg, pos) == Slice(arg, pos, Len(arg))

\* let val = &arg[(eq_pos + 1)..];
ValSlice(arg, pos) == Slice(arg, pos + 1, Len(arg))

\* ----------------------------------------------------------------------
\* State machine
\* ----------------------------------------------------------------------

Pending == [tag |-> "Pending"]

Call(k, cls, key, ret) == [tok |-> k, cls |-> cls, key |-> key, ret |-> ret]

\* There is no second invocation.
NoOther == [pc |-> "none"]

Init ==
    /\ env_args \in SeqsUpTo(MaxTokens)
    /\ error \in SuppliedErrors
    /\ args = ArgumentsNew
    /\ eq_pos = 0
    /\ idx = 0
    /\ pc = "loop"
    /\ result = Pending
    /\ calls = << >>
    /\ other = NoOther

\* The loop has another token to take, as a loop that goes on after a
\* failed classification would behave
HasNextAfterFailure == pc # "panicked" /\ idx < Len(env_args)

\* The loop has another token to take.
HasNext == pc = "loop" /\ idx < Len(env_args)

\* &arg[0..1] on a zero-length token: the slice is out of range.
EmptyTokenPanic ==
    /\ HasNext
    /\ LET arg == env_args[idx + 1] IN
       /\ ~SliceInRange(arg, 0, 1)
       /\ idx' = idx + 1
       /\ pc' = "panicked"
       /\ UNCHANGED <<env_args, error, args, eq_pos, result, calls, other>>

\* A '-' token for which eq_pos is 0 after the scan.
FlagNoValue ==
    /\ HasNext
    /\ LET arg == env_args[idx + 1] IN
       /\ SliceInRange(arg, 0, 1)
       /\ IsFlagToken(arg)
       /\ LET pos == FindSeparator(arg, eq_pos)
              ret == FlagFromStr(arg, error)
          IN  /\ pos = 0
              /\ eq_pos' = pos
              /\ idx' = idx + 1
              /\ calls' = Append(calls, Call(idx + 1, "flag", arg, ret))
              /\ IF ret.tag = "Ok"
                 THEN /\ args' = [args EXCEPT !.flags = Push(@, Flag(ret.val, None))]
                      /\ UNCHANGED <<pc, result>>
                 ELSE /\ pc' = "returned"
                      /\ result' = ReturnErr(ret.error)
                      /\ UNCHANGED args
              /\ UNCHANGED <<env_args, error, other>>

\* A '-' token for which eq_pos is not 0 after the scan.
FlagWithValue ==
    /\ HasNext
    /\ LET arg == env_args[idx + 1] IN
       /\ SliceInRange(arg, 0, 1)
       /\ IsFlagToken(arg)
       /\ LET pos == FindSeparator(arg, eq_pos) IN
          /\ pos # 0
          /\ eq_pos' = pos
          /\ idx' = idx + 1
          /\ IF ~(SliceInRange(arg, 0, pos) /\ SliceInRange(arg, pos + 1, Len(arg)))
             THEN /\ pc' = "panicked"
                  /\ UNCHANGED <<args, result, calls>>
             ELSE LET key == KeySlice(arg, pos)
                      val == ValSlice(arg, pos)
                      ret == FlagFromStr(key, error)
                  IN  /\ calls' = Append(calls, Call(idx + 1, "flag", key, ret))
                      /\ IF ret.tag = "Ok"
                         THEN /\ args' = [args EXCEPT !.flags = Push(@, Flag(ret.val, Some(val)))]
                              /\ UNCHANGED <<pc, result>>
                         ELSE /\ pc' = "returned"
                              /\ result' = ReturnErr(ret.error)
                              /\ UNCHANGED args
          /\ UNCHANGED <<env_args, error, other>>

\* A token that does not begin with '-'.
ActionToken ==
    /\ HasNext
    /\ LET arg == env_args[idx + 1] IN
       /\ SliceInRange(arg, 0, 1)
       /\ ~IsFlagToken(arg)
       /\ LET ret == ActionFromStr(arg, error) IN
          /\ idx' = idx + 1
          /\ calls' = Append(calls, Call(idx + 1, "action", arg, ret))
          /\ IF ret.tag = "Ok"
             THEN /\ args' = [args EXCEPT !.actions = Push(@, ret.val)]
                  /\ UNCHANGED <<pc, result>>
             ELSE /\ pc' = "returned"
                  /\ result' = ReturnErr(ret.error)
                  /\ UNCHANGED args
          /\ UNCHANGED <<env_args, error, eq_pos, other>>

\* The loop is over: Ok(args).
ReturnOk ==
    /\ pc = "loop"
    /\ idx = Len(env_args)
    /\ pc' = "returned"
    /\ result' = Ok(args)
    /\ UNCHANGED <<env_args, error, args, eq_pos, idx, calls, other>>

Next ==
    \/ EmptyTokenPanic
    \/ FlagNoValue
    \/ FlagWithValue
    \/ ActionToken
    \/ ReturnOk

Spec == Init /\ [][Next]_vars

\* ----------------------------------------------------------------------
\* Two invocations of parse, their per-token steps interleaved
\* ----------------------------------------------------------------------

\* The locals of an invocation at its entry.
Entry(tokens, e) ==
    [env_args |-> tokens, error |-> e, args |-> ArgumentsNew, eq_pos |-> 0,
     idx |-> 0, pc |-> "loop", result |-> Pending, calls |-> << >>]

\* The eq_pos an invocation resumes with, as one eq_pos shared by all
\* invocations (a static) would behave: `current` is the value the
\* invocation that ran last left.
ResumedEqPosShared(saved, current) == current

\* The eq_pos an invocation resumes with: `let mut eq_pos` is a local of
\* the invocation, so it is the value the invocation itself left (saved).
ResumedEqPos(saved, current) == saved

ConcInit ==
    /\ env_args \in ConcSeqsUpTo(MaxConcTokens)
    /\ error = "Syntax"
    /\ args = ArgumentsNew
    /\ eq_pos = 0
    /\ idx = 0
    /\ pc = "loop"
    /\ result = Pending
    /\ calls = << >>
    /\ \E tokens \in ConcSeqsUpTo(MaxConcTokens) : other = Entry(tokens, "NotRecognized")

\* The other invocation is the one to take the next step.
Switch ==
    /\ other.pc = "loop"
    /\ other' = [env_args |-> env_args, error |-> error, args |-> args,
                 eq_pos |-> eq_pos, idx |-> idx, pc |-> pc, result |-> result,
                 calls |-> calls]
    /\ env_args' = other.env_args
    /\ error' = other.error
    /\ args' = other.args
    /\ eq_pos' = ResumedEqPos(other.eq_pos, eq_pos)
    /\ idx' = other.idx
    /\ pc' = other.pc
    /\ result' = other.result
    /\ calls' = other.calls

ConcNext ==
    \/ EmptyTokenPanic
    \/ FlagNoValue
    \/ FlagWithValue
    \/ ActionToken
    \/ ReturnOk
    \/ Switch

ConcSpec == ConcInit /\ [][ConcNext]_vars

TypeOK ==
    /\ Len(env_args) <= MaxTokens
    /\ \A k \in 1..Len(env_args) : env_args[k] \in TokenPool
    /\ error \in ErrorValues
    /\ idx \in 0..Len(env_args)
    /\ eq_pos \in Nat
    /\ pc \in {"loop", "returned", "panicked"}
    /\ result.tag \in {"Pending", "Ok", "Err"}

\* ----------------------------------------------------------------------
\* parse as a function of its arguments
\* ----------------------------------------------------------------------

\* How an invocation ended: by a return (Ok or Err) or by a panic.
Returned(r) == [pc |-> "returned", result |-> r]
Panicked == [pc |-> "panicked", result |-> Pending]

\* The `for` loop of parse from the (k+1)-th token on, with the working
\* result a and the separator position pos.
RECURSIVE ParseFrom(_, _, _, _, _)
ParseFrom(tokens, e, k, a, pos) ==
    IF k >= Len(tokens) THEN Returned(Ok(a))
    ELSE
      LET arg == tokens[k + 1] IN
      IF ~SliceInRange(arg, 0, 1) THEN Panicked
      ELSE IF IsFlagToken(arg) THEN
        LET p == FindSeparator(arg, pos) IN
        IF p = 0 THEN
          LET ret == FlagFromStr(arg, e) IN
          IF ret.tag = "Ok"
          THEN ParseFrom(tokens, e, k + 1,
                         [a EXCEPT !.flags = Push(@, Flag(ret.val, None))], p)
          ELSE Returned(ReturnErr(ret.error))
        ELSE IF ~(SliceInRange(arg, 0, p) /\ SliceInRange(arg, p + 1, Len(arg)))
        THEN Panicked
        ELSE
          LET ret == FlagFromStr(KeySlice(arg, p), e) IN
          IF ret.tag = "Ok"
          THEN ParseFrom(tokens, e, k + 1,
                         [a EXCEPT !.flags = Push(@, Flag(ret.val, Some(ValSlice(arg, p))))], p)
          ELSE Returned(ReturnErr(ret.error))
      ELSE
        LET ret == ActionFromStr(arg, e) IN
        IF ret.tag = "Ok"
        THEN ParseFrom(tokens, e, k + 1, [a EXCEPT !.actions = Push(@, ret.val)], pos)
        ELSE Returned(ReturnErr(ret.error))

\* Arguments::parse(tokens, e), run on its own.
Parse(tokens, e) == ParseFrom(tokens, e, 0, ArgumentsNew, 0)

\* ----------------------------------------------------------------------
\* Vocabulary of the properties
\* ----------------------------------------------------------------------

\* The token begins with '-'.
StartsWithDash(t) == Len(t) > 0 /\ t[1] = "-"

\* The token is non-empty and does not begin with '-'.
StartsWithOther(t) == Len(t) > 0 /\ t[1] # "-"

\* The byte offsets (0-based) of the '=' characters of a token.
EqOffsets(t) == { p \in 0..(Len(t) - 1) : t[p + 1] = "=" }

\* The smallest offset of a non-empty set of offsets.
FirstOf(S) == CHOOSE p \in S : \A q \in S : p <= q

\* The text of t before byte offset p, and the text after the byte at p.
Before(t, p) == SubSeq(t, 1, p)
After(t, p) == SubSeq(t, p + 2, Len(t))

\* The number of '-' tokens among the first k tokens of the input.
FlagTokensUpTo(k) == Cardinality({ j \in 1..k : StartsWithDash(env_args[j]) })

\* The number of action tokens among the first k tokens of the input.
ActionTokensUpTo(k) == Cardinality({ j \in 1..k : StartsWithOther(env_args[j]) })

\* parse passed `key` to the flag classifier for the k-th token.
PassedToFlagClassifier(k, key) ==
    \E i \in 1..Len(calls) :
        calls[i].tok = k /\ calls[i].cls = "flag" /\ calls[i].key = key

\* The flag classifier accepts `key`.
FlagAccepts(key) == FlagFromStr(key, error).tag = "Ok"

\* The flag recorded for the k-th token (a '-' token) is f.
RecordedFlagIs(k, f) ==
    /\ FlagTokensUpTo(k) <= Len(args.flags)
    /\ args.flags[FlagTokensUpTo(k)] = f

\* ----------------------------------------------------------------------
\* Properties
\* ----------------------------------------------------------------------

\* C1: every taken token that begins with '-' and contains no '=' is passed
\* whole to the flag classifier and, when the classifier accepts it, the
\* flag recorded for it has the classified key and the value None,
\* whatever tokens precede it.
C1_NoSeparatorWholeToken ==
    \A k \in 1..idx :
        LET t == env_args[k] IN
        (StartsWithDash(t) /\ EqOffsets(t) = {}) =>
            /\ PassedToFlagClassifier(k, t)
            /\ FlagAccepts(t) =>
                   RecordedFlagIs(k, Flag(FlagFromStr(t, error).val, None))

C3_FirstSeparatorSplits ==
    \A k \in 1..idx :
        LET t == env_args[k] IN
        (StartsWithDash(t) /\ Cardinality(EqOffsets(t)) > 1) =>
            LET p == FirstOf(EqOffsets(t)) IN
            /\ PassedToFlagClassifier(k, Before(t, p))
            /\ FlagAccepts(Before(t, p)) =>
                   RecordedFlagIs(k, Flag(FlagFromStr(Before(t, p), error).val,
                                          Some(After(t, p))))

\* C4: when a classifier rejects what parse passed it for a token, parse
\* has returned Err carrying exactly the supplied error value, and the
\* value returned holds no flags and no actions.
C4_RejectionReturnsSuppliedError ==
    /\ \A i \in 1..Len(calls) :
           calls[i].ret.tag = "Err" =>
               /\ i = Len(calls)
               /\ pc = "returned"
               /\ result = [tag |-> "Err", error |-> error]
    /\ result.tag = "Err" => DOMAIN result = {"tag", "error"}
    /\ result.tag = "Ok" => \A i \in 1..Len(calls) : calls[i].ret.tag = "Ok"

\* The third token was rejected after a flag and an action had been collected.
C4_Witness ==
    /\ pc = "returned"
    /\ result.tag = "Err"
    /\ Len(calls) = 3
    /\ Len(args.flags) >= 1
    /\ Len(args.actions) >= 1

\* C5: a zero-length token, once taken, makes parse return Err with the
\* supplied error value.
C5_EmptyTokenRejected ==
    \A k \in 1..idx :
        env_args[k] = << >> => (pc = "returned" /\ result = Err(error))

\* C6: when parse returns Ok, the flags and the actions together number
\* as many as the tokens.
C6_OkCountsTokens ==
    result.tag = "Ok" =>
        Len(result.val.flags) + Len(result.val.actions) = Len(env_args)

\* Ok was returned for three tokens, flags and actions among them.
C6_Witness ==
    /\ result.tag = "Ok"
    /\ Len(env_args) >= 3
    /\ Len(result.val.flags) >= 1
    /\ Len(result.val.actions) >= 1

\* The flag f can have been made from the token t: its key classifies the
\* whole of t and it has no value, or its key classifies the text before
\* some offset n of t and its value is the text after n.
MadeFrom(f, t) ==
    \/ /\ FlagAccepts(t)
       /\ f = Flag(FlagFromStr(t, error).val, None)
    \/ \E n \in 1..(Len(t) - 1) :
          /\ FlagAccepts(Before(t, n))
          /\ f = Flag(FlagFromStr(Before(t, n), error).val, Some(After(t, n)))

\* C7: when parse returns Ok, the i-th flag is made from the i-th '-'
\* token of the input and the j-th action is the classification of the
\* j-th other token, whatever their interleaving.
C7_OrderPreserved ==
    result.tag = "Ok" =>
        LET flagTokens == SelectSeq(env_args, StartsWithDash)
            actionTokens == SelectSeq(env_args, StartsWithOther)
        IN  /\ Len(result.val.flags) = Len(flagTokens)
            /\ \A i \in 1..Len(flagTokens) :
                   MadeFrom(result.val.flags[i], flagTokens[i])
            /\ Len(result.val.actions) = Len(actionTokens)
            /\ \A j \in 1..Len(actionTokens) :
                   result.val.actions[j] = ActionFromStr(actionTokens[j], error).val

\* Ok was returned for two different flags around an action, or two
\* different actions around a flag.
C7_Witness ==
    /\ result.tag = "Ok"
    /\ Len(env_args) = 3
    /\ StartsWithDash(env_args[1])
    /\ StartsWithOther(env_args[2])
    /\ StartsWithDash(env_args[3])
    /\ result.val.flags[1] # result.val.flags[2]

\* C8: a token is passed to the flag classifier exactly when its first
\* character is '-', and otherwise to the action classifier; '-' tokens
\* alone add to flags and other tokens alone add to actions; so an input
\* of accepted action tokens only gives as many actions as tokens and no
\* flag.
C8_SyntacticSplit ==
    /\ \A i \in 1..Len(calls) :
           /\ calls[i].cls \in {"flag", "action"}
           /\ calls[i].cls = "flag" <=> StartsWithDash(env_args[calls[i].tok])
           /\ calls[i].cls = "action" <=> StartsWithOther(env_args[calls[i].tok])
    /\ Len(args.flags) <= FlagTokensUpTo(idx)
    /\ Len(args.actions) <= ActionTokensUpTo(idx)
    /\ pc = "loop" => /\ Len(args.flags) = FlagTokensUpTo(idx)
                      /\ Len(args.actions) = ActionTokensUpTo(idx)
    /\ (result.tag = "Ok" /\ \A k \in 1..Len(env_args) : StartsWithOther(env_args[k])) =>
           /\ Len(result.val.actions) = Len(env_args)
           /\ Len(result.val.flags) = 0

\* Ok was returned for an input of action tokens only, all accepted.
C8_Witness ==
    /\ result.tag = "Ok"
    /\ Len(env_args) >= 2
    /\ \A k \in 1..Len(env_args) : StartsWithOther(env_args[k])
    /\ Len(result.val.actions) = Len(env_args)

\* C9: on the empty token sequence parse makes no classifier call, does
\* not fail, and what it returns is Ok with no flags and no actions.
C9_EmptyInput ==
    env_args = << >> =>
        /\ calls = << >>
        /\ pc # "panicked"
        /\ result.tag # "Err"
        /\ pc = "returned" => result = [tag |-> "Ok",
                                        val |-> [flags |-> << >>, actions |-> << >>]]

\* parse has returned on the empty token sequence.
C9_Witness == env_args = << >> /\ pc = "returned"

\* C10: parse takes each token at most once and, on an input of non-empty
\* tokens, ends by returning Ok or Err.
C10_EndsWithOkOrErr ==
    /\ idx <= Len(env_args)
    /\ \A i, j \in 1..Len(calls) : calls[i].tok = calls[j].tok => i = j
    /\ (\A k \in 1..Len(env_args) : env_args[k] # << >>) =>
           (pc # "loop" => (pc = "returned" /\ result.tag \in {"Ok", "Err"}))

\* C12: for every taken '-' token containing a separator, what the flag
\* classifier is given is the text before the separator (the leftmost
\* '='), not the whole token and no part of the value; and exactly one
\* classifier call is made for each token parse has processed (taken
\* without panicking on it).
C12_KeyOnlyOncePerToken ==
    \A k \in 1..idx :
        LET t == env_args[k] IN
        ~(k = idx /\ pc = "panicked") =>
        /\ Cardinality({ i \in 1..Len(calls) : calls[i].tok = k }) = 1
        /\ (StartsWithDash(t) /\ EqOffsets(t) # {}) =>
               /\ PassedToFlagClassifier(k, Before(t, FirstOf(EqOffsets(t))))
               /\ ~PassedToFlagClassifier(k, t)

\* C13: the classifier calls are made in the order of the tokens, one
\* token after the other; a rejected call is the last call parse makes,
\* for the last token it takes, and the error returned is that call's,
\* also when a later token would be rejected too.
C13_FailFastInOrder ==
    /\ \A i \in 1..Len(calls) : calls[i].tok = i
    /\ \A i \in 1..Len(calls) :
           calls[i].ret.tag = "Err" =>
               /\ \A j \in 1..Len(calls) : j <= i
               /\ idx = i
               /\ result = calls[i].ret
               /\ \A j \in 1..(i - 1) : calls[j].ret.tag = "Ok"

\* parse returned Err at the first token although a later token is one
\* its classifier rejects as well.
C13_Witness ==
    /\ result.tag = "Err"
    /\ idx = 1
    /\ Len(env_args) = 3
    /\ env_args[3] # << >>
    /\ \/ StartsWithDash(env_args[3]) /\ ~FlagAccepts(env_args[3])
       \/ StartsWithOther(env_args[3]) /\ ActionFromStr(env_args[3], error).tag = "Err"
    /\ Len(calls) = 1

\* C15: on an input of non-empty tokens, whenever the separator branch
\* is taken for a token (a '-' token, eq_pos not 0 after its scan), eq_pos
\* is inside the token, the character at eq_pos is '=', and parse has not
\* aborted on an out-of-range slice.
C15_SeparatorInsideToken ==
    (\A k \in 1..Len(env_args) : env_args[k] # << >>) =>
        /\ pc # "panicked"
        /\ (idx >= 1 /\ StartsWithDash(env_args[idx]) /\ eq_pos # 0) =>
               /\ 0 < eq_pos
               /\ eq_pos < Len(env_args[idx])
               /\ env_args[idx][eq_pos + 1] = "="

\* The invocation ended as parse run on its own on the same arguments ends.
EndsAsParse ==
    pc # "loop" => [pc |-> pc, result |-> result] = Parse(env_args, error)

\* C14: for every way to cut the input into xs ++ ys such that parse
\* succeeds on xs alone and on ys alone, parse on the whole input returns
\* Ok with flags = flags(xs) ++ flags(ys) and actions = actions(xs) ++
\* actions(ys).
C14_ConcatenationOfResults ==
    \A m \in 0..Len(env_args) :
        LET px == Parse(SubSeq(env_args, 1, m), error)
            py == Parse(SubSeq(env_args, m + 1, Len(env_args)), error)
        IN  (px.result.tag = "Ok" /\ py.result.tag = "Ok" /\ pc # "loop") =>
                /\ pc = "returned"
                /\ result = [tag |-> "Ok",
                             val |-> [flags |-> px.result.val.flags \o py.result.val.flags,
                                      actions |-> px.result.val.actions
                                                  \o py.result.val.actions]]

\* C11: with two invocations whose per-token steps interleave in any
\* order, each invocation that has ended has ended exactly as parse run
\* alone on its arguments ends.
C11_IndependentInvocations ==
    /\ pc # "loop" =>
           [pc |-> pc, result |-> result] = Parse(env_args, error)
    /\ other.pc \in {"returned", "panicked"} =>
           [pc |-> other.pc, result |-> other.result]
               = Parse(other.env_args, other.error)

\* One invocation has returned Ok on two tokens while the other, which
\* has taken the first of its two tokens, is still in its loop, the two
\* having left different separator positions.
C11_Witness ==
    /\ pc = "returned" /\ result.tag = "Ok" /\ Len(env_args) = 2
    /\ other.pc = "loop" /\ other.idx = 1 /\ Len(other.env_args) = 2
    /\ eq_pos # 0 /\ other.eq_pos # 0 /\ eq_pos # other.eq_pos
====
